---- MODULE Spec2Model ----
(***************************************************************************)
(* Job submission / polling state machine of the Sora video front end.     *)
(*                                                                         *)
(* Two variants of the application are modelled over one set of variables: *)
(*   "part_000"  src/unnamed/part_000  (404-resilient polling)             *)
(*   "App"       src/src/App.tsx       (every poll error is terminal)      *)
(* `variant` is chosen in Init and never changes.                          *)
(*                                                                         *)
(* Time is abstracted: a timer that is scheduled may fire at any moment, a *)
(* request in flight may be answered at any moment and in any order.  The  *)
(* backend is opaque: every answer it can give is a nondeterministic input *)
(* of the step that processes it.  Timestamps (createdAt) and the state    *)
(* that only the markup reads (statusEmoji, showDownloadModal, isSaving)   *)
(* are not modelled.  The download of a finished video (handleDownload) is *)
(* an action of SpecDownload only.  The submit control is the button's     *)
(* `disabled={isLoading}`: the overlay drawn while isLoading or            *)
(* isGenerating covers the page but does not disable the form.             *)
(*                                                                         *)
(* React semantics used: a state setter called after the component has     *)
(* unmounted is a no-op (St); refs (pollingInterval, retryCount), timers   *)
(* and requests live on after unmount.                                     *)
(***************************************************************************)
EXTENDS Integers, Sequences, FiniteSets, TLC

VARIABLES
    variant,          \* which application variant runs
    mounted,          \* the App component is mounted
    form,             \* form.values: [prompt, duration, resolution]
    formErrors,       \* form.errors: the fields whose validator failed
    job,              \* useState<VideoJob | null>
    isLoading,        \* useState(false)
    isGenerating,     \* useState(false)          (part_000 only)
    error,            \* useState<string | null>  (the error banner)
    openAiStatus,     \* useState<string>('')     (App.tsx only)
    pollingInterval,  \* pollingInterval.current: a timer handle or NoTimer
    retryCount,       \* retryCount.current: job id -> consecutive 404s (part_000)
    intervals,        \* browser: the setInterval timers not yet cleared
    timeouts,         \* browser: pending setTimeout re-checks, per job id
    gets,             \* network: GET /api/job/{id} in flight, per job id
    posts,            \* network: POST /api/generate in flight (submitted values)
    nextJob,          \* backend: the job id the next create request is given
    started,          \* history: job ids for which startJobPolling has run
    terminalSeen,     \* history: job ids for which a terminal status was processed
    lastPoll,         \* history: the kind of poll outcome processed last
    arg,              \* the arguments of the function applied on its own
    ret,              \* the value that application returned
    backend           \* backend: "any" answer, or only "terminal" statuses from now on

vars == <<variant, mounted, form, formErrors, job, isLoading, isGenerating,
          error, openAiStatus, pollingInterval,
          retryCount, intervals, timeouts, gets, posts, nextJob,
          started, terminalSeen, lastPoll, arg, ret, backend>>

-----------------------------------------------------------------------------
(* Bounds of the model *)

MaxJobs == 2        \* submissions in a run; the n-th one gets job id n
MaxTimers == 3      \* timer handles that can be live at once
MaxInFlight == 2    \* status requests in flight at once
MaxTimeouts == 1    \* one-off re-checks pending at once
MaxPosts == 1       \* create requests in flight at once
MaxNotFound == 6    \* cap of the consecutive-404 counter

JobIds == 1..MaxJobs
TimerIds == 1..MaxTimers

-----------------------------------------------------------------------------
(* Values *)

Undefined == "undefined"       \* a field that is absent
Null == "null"                 \* null (JSON null, useState(null))
NoProgress == -1               \* progress === undefined
NoId == 0                      \* id: '' (no job id)
NoTimer == 0                   \* pollingInterval.current === null
NoJob == [null |-> TRUE]       \* job === null
NoResult == [undefined |-> TRUE]   \* result === undefined
NoCall == [none |-> TRUE]      \* no function is applied on its own

\* JavaScript truthiness of a string-or-absent value
Truthy(v) == v \notin {Undefined, Null, ""}
\* a || b
Or(a, b) == IF Truthy(a) THEN a ELSE b

MIN_VIDEO_DURATION == 1
MAX_VIDEO_DURATION == 10
MAX_RETRIES == 5
RETRY_DELAY == 2000
POLL_PERIOD == 2000
SLOW_POLL_PERIOD == 5000

\* supportedResolutions of part_000 (the values)
supportedResolutions ==
    {"480x480", "480x854", "854x480", "720x720", "1080x1080"}

Finalizing == "Finalizing video... (this may take a few more moments)"

\* Prompts are sequences of characters
IsSpace(c) == c \in {" ", "\t", "\n"}

RECURSIVE TrimLeft(_)
TrimLeft(s) ==
    IF s # <<>> /\ IsSpace(Head(s)) THEN TrimLeft(Tail(s)) ELSE s

RECURSIVE TrimRight(_)
TrimRight(s) ==
    IF s # <<>> /\ IsSpace(s[Len(s)]) THEN TrimRight(SubSeq(s, 1, Len(s) - 1)) ELSE s

\* String.prototype.trim
Trim(s) == TrimRight(TrimLeft(s))

PromptCat == <<"c", "a", "t">>
PromptBlank == <<" ">>
PromptEmpty == <<>>


-----------------------------------------------------------------------------
(* Inputs: what the user and the backend can supply *)

Variants == {"part_000", "App"}

FormValues(p, d, r) == [prompt |-> p, duration |-> d, resolution |-> r]

\* useForm initialValues
initialValues == FormValues(PromptEmpty, 5, "854x480")

\* A successful GET /api/job/{id} body
Resp(st, pr, er, os, orsp, res) ==
    [status |-> st, progress |-> pr, error |-> er, openai_status |-> os,
     openai_response |-> orsp, result |-> res]

VideoResult ==
    [video_url |-> "https://x/y.mp4", video_id |-> "vid-1", filename |-> "y.mp4"]

\* The status bodies the backend answers with in the state machine
PollResponses ==
    { Resp("processing", 30, Undefined, Undefined, Undefined, NoResult),
      Resp("completed", NoProgress, Undefined, Undefined, Undefined, VideoResult),
      Resp("failed", NoProgress, "boom", Undefined, Undefined, NoResult),
      Resp("failed", NoProgress, Undefined, Undefined, Undefined, NoResult) }

\* An axios error: status 0 = no response received
AxiosError(st, detail, msg) == [status |-> st, detail |-> detail, message |-> msg]

NotFound == AxiosError(404, Undefined, "Request failed with status code 404")

\* Poll failures other than 404
PollErrors ==
    { AxiosError(0, Undefined, "Network Error") }

\* Ways a create request fails: server error, no response, body without an id
NoJobIdError == AxiosError(200, Undefined, "No job ID received in response")

CreateErrors ==
    { AxiosError(500, "backend detail", "Request failed with status code 500"),
      NoJobIdError }

-----------------------------------------------------------------------------
(* Helpers *)

\* A state setter: ignored once the component has unmounted
St(new, old) == IF mounted THEN new ELSE old

Total(f) ==
    LET RECURSIVE Sum(_)
        Sum(S) == IF S = {} THEN 0
                  ELSE LET x == CHOOSE x \in S : TRUE IN f[x] + Sum(S \ {x})
    IN Sum(DOMAIN f)

\* (variation: clearing a timer does nothing)
clearInterval_inert(ints, h) == ints

\* clearInterval(h): a handle that is not live is ignored
clearInterval(ints, h) == {t \in ints : t.h # h}

FreeTimers(ints, keep) == TimerIds \ ({t.h : t \in ints} \cup {keep})

\* setInterval returns a handle that equals no live handle and no handle the
\* program still holds (browser handles are never reused)
NewTimer(ints, keep) ==
    CHOOSE h \in FreeTimers(ints, keep) : \A g \in FreeTimers(ints, keep) : h <= g

Timer(h, j, p) == [h |-> h, jobId |-> j, period |-> p]

\* (variation: no timer is started)
setInterval_inert(ints, h, j, p) == ints

\* setInterval(() => checkJobStatus(j), p), with the handle h it returns
setInterval(ints, h, j, p) == ints \cup {Timer(h, j, p)}

\* (variation: the resolution is not validated)
validate_anyResolution(v) ==
    {f \in {"prompt"} : Len(Trim(v.prompt)) = 0}
    \cup {f \in {"duration"} :
            ~(v.duration >= MIN_VIDEO_DURATION /\ v.duration <= MAX_VIDEO_DURATION)}

\* useForm validate of part_000: the fields that fail
validate(v) ==
    {f \in {"prompt"} : Len(Trim(v.prompt)) = 0}
    \cup {f \in {"duration"} :
            ~(v.duration >= MIN_VIDEO_DURATION /\ v.duration <= MAX_VIDEO_DURATION)}
    \cup {f \in {"resolution"} : v.resolution \notin supportedResolutions}

\* useForm validate of App.tsx: no resolution validator
App_validate(v) ==
    {f \in {"prompt"} : Len(Trim(v.prompt)) = 0}
    \cup {f \in {"duration"} :
            ~(v.duration >= MIN_VIDEO_DURATION /\ v.duration <= MAX_VIDEO_DURATION)}

Validate(v) == IF variant = "part_000" THEN validate(v) ELSE App_validate(v)

\* initialJob of handleSubmit (part_000)
initialJob(v) ==
    [id |-> NoId, status |-> "pending", error |-> Undefined, videoUrl |-> Undefined,
     progress |-> 0, openAiStatus |-> "Sending request to OpenAI...",
     openAiResponse |-> Undefined, result |-> NoResult,
     prompt |-> v.prompt, duration |-> v.duration, resolution |-> v.resolution,
     generationDetails |->
        [prompt |-> v.prompt, duration |-> v.duration, resolution |-> v.resolution]]

\* (variation: the record of the started job loses its prompt)
initialJobWithDetails_noPrompt(jobId, v) ==
    [initialJob(v) EXCEPT
        !.openAiStatus = "Request received. Processing video generation...",
        !.id = jobId, !.status = "pending", !.progress = 0, !.prompt = PromptEmpty]

\* initialJobWithDetails of startJobPolling (part_000); form.values in the
\* closure of the submitting render are the submitted values
initialJobWithDetails(jobId, v) ==
    [initialJob(v) EXCEPT
        !.openAiStatus = "Request received. Processing video generation...",
        !.id = jobId, !.status = "pending", !.progress = 0]

\* result?.video_url
VideoUrlOf(res) == IF res = NoResult THEN Undefined ELSE res.video_url

\* (variation: every field is overwritten, absent or not)
merge_overwriting(prev, r) ==
    [prev EXCEPT
        !.status = r.status, !.progress = r.progress, !.error = r.error,
        !.openAiStatus = r.openai_status, !.openAiResponse = r.openai_response,
        !.result = r.result, !.videoUrl = VideoUrlOf(r.result)]

\* The setJob updater of checkJobStatus (part_000)
merge(prev, r) ==
    [prev EXCEPT
        !.status = Or(r.status, prev.status),
        !.progress = IF r.progress # NoProgress THEN r.progress ELSE prev.progress,
        !.error = Or(r.error, prev.error),
        !.openAiStatus = Or(r.openai_status, prev.openAiStatus),
        !.openAiResponse = Or(r.openai_response, prev.openAiResponse),
        !.result = IF r.result # NoResult THEN r.result ELSE prev.result,
        !.videoUrl = Or(VideoUrlOf(r.result), prev.videoUrl)]

\* (variation: the 404 threshold gives the job up)
notFoundJob_failing(prev) ==
    [prev EXCEPT !.status = "failed", !.openAiStatus = Finalizing]

\* The setJob updater of the 404 branch once MAX_RETRIES is reached
notFoundJob(prev) ==
    [prev EXCEPT !.status = "processing", !.openAiStatus = Finalizing]

\* (variation: a poll error fails the job)
pollErrorJob_failing(prev, e) ==
    [prev EXCEPT !.error = Or(e.message, "Failed to check job status"),
                 !.status = "failed"]

\* The setJob updater of the branch for any other poll error
pollErrorJob(prev, e) ==
    [prev EXCEPT !.error = Or(e.message, "Failed to check job status")]

-----------------------------------------------------------------------------
(* Initial state: the component has just mounted *)

\* every state cell, ref, timer and request as the first render leaves it
mountedState ==
    /\ mounted = TRUE
    /\ form = initialValues
    /\ formErrors = {}
    /\ job = NoJob
    /\ isLoading = FALSE
    /\ isGenerating = FALSE
    /\ error = Null
    /\ openAiStatus = ""
    /\ pollingInterval = NoTimer
    /\ retryCount = [j \in JobIds |-> 0]
    /\ intervals = {}
    /\ timeouts = [j \in JobIds |-> 0]
    /\ gets = [j \in JobIds |-> 0]
    /\ posts = <<>>
    /\ nextJob = 1
    /\ started = {}
    /\ terminalSeen = {}
    /\ lastPoll = "none"
    /\ backend = "any"

Init ==
    /\ variant \in Variants
    /\ arg = NoCall
    /\ ret = NoCall
    /\ mountedState

fixed == <<variant, arg, ret, backend>>
ui == <<isLoading, isGenerating, error, openAiStatus>>
browser == <<pollingInterval, retryCount, intervals, timeouts>>
network == <<gets, posts, nextJob>>
history == <<started, terminalSeen, lastPoll>>


-----------------------------------------------------------------------------
(* The user edits the form.  The inputs are disabled while isLoading. *)

\* the fields in which two sets of form values differ
Changed(v, w) == {f \in {"prompt", "duration", "resolution"} : v[f] # w[f]}

\* an edited field loses its error message
setFieldValue(P, D, R) ==
    /\ mounted /\ ~isLoading
    /\ \E p \in P, d \in D, r \in R :
          /\ form' = FormValues(p, d, r)
          /\ form' # form
    /\ formErrors' = formErrors \ Changed(form, form')
    /\ UNCHANGED <<fixed, mounted, job, ui, browser, network, history>>

\* form.onSubmit with values that fail validation: the handler is not called
onSubmitRejected ==
    /\ mounted /\ ~isLoading
    /\ Validate(form) # {}
    /\ formErrors' = Validate(form)
    /\ UNCHANGED <<fixed, mounted, form, job, ui, browser, network, history>>

-----------------------------------------------------------------------------
(* part_000: handleSubmit up to its await of the create request *)

handleSubmit ==
    /\ variant = "part_000"
    /\ mounted /\ ~isLoading
    /\ Validate(form) = {}
    /\ Len(posts) < MaxPosts
    /\ nextJob + Len(posts) <= MaxJobs
    /\ formErrors' = {}
    /\ isLoading' = TRUE
    /\ isGenerating' = TRUE
    /\ error' = Null
    /\ job' = initialJob(form)
    /\ posts' = Append(posts, form)
    /\ UNCHANGED <<fixed, mounted, form, openAiStatus,
                   browser, gets, nextJob, history>>

RemoveAt(s, i) == SubSeq(s, 1, i - 1) \o SubSeq(s, i + 1, Len(s))

\* part_000: the create request answered with a job id: startJobPolling
startJobPolling ==
    /\ variant = "part_000"
    /\ nextJob <= MaxJobs
    /\ \E i \in 1..Len(posts) :
        LET jobId == nextJob
            cleared == IF pollingInterval # NoTimer
                       THEN clearInterval(intervals, pollingInterval)
                       ELSE intervals
        IN  /\ FreeTimers(cleared, NoTimer) # {}
            /\ job' = St(initialJobWithDetails(jobId, posts[i]), job)
            /\ pollingInterval' = NewTimer(cleared, NoTimer)
            /\ intervals' =
                 setInterval(cleared, NewTimer(cleared, NoTimer), jobId, POLL_PERIOD)
            /\ posts' = RemoveAt(posts, i)
            /\ nextJob' = nextJob + 1
            /\ started' = started \cup {jobId}
    /\ UNCHANGED <<fixed, mounted, form, formErrors, ui, retryCount, timeouts,
                   gets, terminalSeen, lastPoll>>

\* errorMsg of the catch blocks of handleSubmit / handleGenerate
CreateErrorMsg(e) == Or(e.detail, Or(e.message, "Failed to start video generation"))

\* part_000: the create request failed or carried no id: the catch block
handleSubmit_catch ==
    /\ variant = "part_000"
    /\ \E i \in 1..Len(posts), e \in CreateErrors :
        /\ error' = St(CreateErrorMsg(e), error)
        /\ isLoading' = St(FALSE, isLoading)
        /\ job' = St(IF job # NoJob
                     THEN [job EXCEPT !.openAiStatus = "Error: " \o CreateErrorMsg(e)]
                     ELSE NoJob, job)
        /\ posts' = RemoveAt(posts, i)
        /\ nextJob' = nextJob + 1
    /\ UNCHANGED <<fixed, mounted, form, formErrors, isGenerating,
                   openAiStatus, browser, gets, history>>

-----------------------------------------------------------------------------
(* Timers fire: checkJobStatus (part_000) / poll (App.tsx) sends its GET *)

intervalTick ==
    /\ Total(gets) < MaxInFlight
    /\ \E t \in intervals :
        /\ gets' = [gets EXCEPT ![t.jobId] = @ + 1]
    /\ UNCHANGED <<fixed, mounted, form, formErrors, job, ui, browser, posts,
                   nextJob, history>>

\* part_000: the one-off re-check scheduled by a 404 fires
timeoutFire ==
    /\ Total(gets) < MaxInFlight
    /\ \E j \in JobIds :
        /\ timeouts[j] > 0
        /\ timeouts' = [timeouts EXCEPT ![j] = @ - 1]
        /\ gets' = [gets EXCEPT ![j] = @ + 1]
    /\ UNCHANGED <<fixed, mounted, form, formErrors, job, ui, pollingInterval,
                   retryCount, intervals, posts, nextJob, history>>

-----------------------------------------------------------------------------
(* part_000: checkJobStatus after its await *)

Terminal == {"completed", "failed"}

\* (variation: a successful response leaves the counter alone)
resetRetryCount_never(rc, j) == rc

\* retryCount.current[jobId] = 0
resetRetryCount(rc, j) == [rc EXCEPT ![j] = 0]

\* the try block: a 2xx response r for job j
checkJobStatus_try(j, r) ==
    /\ variant = "part_000"
    /\ gets[j] > 0
    /\ r.status \notin Terminal => backend = "any"
    /\ gets' = [gets EXCEPT ![j] = @ - 1]
    /\ retryCount' = resetRetryCount(retryCount, j)
    /\ job' = St(IF job = NoJob THEN NoJob ELSE merge(job, r), job)
    /\ IF r.status = "completed"
       THEN /\ intervals' = IF pollingInterval # NoTimer
                            THEN clearInterval(intervals, pollingInterval)
                            ELSE intervals
            /\ pollingInterval' = NoTimer
            /\ isLoading' = St(FALSE, isLoading)
            /\ isGenerating' = St(FALSE, isGenerating)
            /\ UNCHANGED error
       ELSE IF r.status = "failed"
       THEN /\ intervals' = IF pollingInterval # NoTimer
                            THEN clearInterval(intervals, pollingInterval)
                            ELSE intervals
            /\ pollingInterval' = NoTimer
            /\ isLoading' = St(FALSE, isLoading)
            /\ isGenerating' = St(FALSE, isGenerating)
            /\ error' = St(Or(r.error, "Video generation failed"), error)
       ELSE UNCHANGED <<intervals, pollingInterval, isLoading, isGenerating,
                       error>>
    /\ terminalSeen' = IF r.status \in Terminal THEN terminalSeen \cup {j}
                       ELSE terminalSeen
    /\ lastPoll' = "ok"
    /\ UNCHANGED <<fixed, mounted, form, formErrors, openAiStatus, timeouts,
                   posts, nextJob, started>>

\* (variation: the 404 schedules no re-check)
setTimeout_never(tos, j) == tos

\* setTimeout(() => checkJobStatus(j), RETRY_DELAY): one more re-check pending
setTimeout(tos, j) == [tos EXCEPT ![j] = @ + 1]

\* the catch block, error.response.status === 404
checkJobStatus_404(j) ==
    /\ variant = "part_000"
    /\ gets[j] > 0
    /\ backend = "any"
    /\ retryCount[j] < MaxNotFound
    /\ gets' = [gets EXCEPT ![j] = @ - 1]
    /\ retryCount' = [retryCount EXCEPT ![j] = @ + 1]
    /\ IF retryCount'[j] >= MAX_RETRIES
       THEN /\ job' = St(IF job # NoJob THEN notFoundJob(job) ELSE NoJob, job)
            /\ IF pollingInterval # NoTimer
               THEN LET cleared == clearInterval(intervals, pollingInterval)
                    IN  /\ FreeTimers(cleared, NoTimer) # {}
                        /\ pollingInterval' = NewTimer(cleared, NoTimer)
                        /\ intervals' = setInterval(cleared,
                               NewTimer(cleared, NoTimer), j, SLOW_POLL_PERIOD)
               ELSE UNCHANGED <<pollingInterval, intervals>>
            /\ UNCHANGED timeouts
       ELSE /\ Total(timeouts) < MaxTimeouts
            /\ timeouts' = setTimeout(timeouts, j)
            /\ UNCHANGED <<job, pollingInterval, intervals>>
    /\ isLoading' = St(FALSE, isLoading)
    /\ UNCHANGED <<started, terminalSeen>>
    /\ lastPoll' = "404"
    /\ UNCHANGED <<fixed, mounted, form, formErrors, isGenerating, error,
                   openAiStatus, posts, nextJob>>

\* the catch block, any other error e
checkJobStatus_error(j, e) ==
    /\ variant = "part_000"
    /\ gets[j] > 0
    /\ backend = "any"
    /\ gets' = [gets EXCEPT ![j] = @ - 1]
    /\ job' = St(IF job # NoJob THEN pollErrorJob(job, e) ELSE NoJob, job)
    /\ pollingInterval' = NoTimer
    /\ isLoading' = St(FALSE, isLoading)
    /\ UNCHANGED <<started, terminalSeen>>
    /\ lastPoll' = "error"
    /\ UNCHANGED <<fixed, mounted, form, formErrors, isGenerating, error,
                   openAiStatus, retryCount,
                   intervals, timeouts, posts, nextJob>>

-----------------------------------------------------------------------------
(* The view is torn down: the useEffect cleanup runs.  The component's     *)
(* state cells (useState, useForm) cease to exist; they are represented by *)
(* their initial values from then on, and St ignores every later setter.   *)

unmount ==
    /\ mounted
    /\ mounted' = FALSE
    /\ form' = initialValues
    /\ formErrors' = {}
    /\ job' = NoJob
    /\ isLoading' = FALSE
    /\ isGenerating' = FALSE
    /\ error' = Null
    /\ openAiStatus' = ""
    /\ IF variant = "part_000"
       THEN /\ intervals' = IF pollingInterval # NoTimer
                            THEN clearInterval(intervals, pollingInterval)
                            ELSE intervals
            /\ UNCHANGED pollingInterval
       ELSE /\ intervals' = IF pollingInterval # NoTimer
                            THEN clearInterval(intervals, pollingInterval)
                            ELSE intervals
            /\ pollingInterval' = NoTimer
    /\ UNCHANGED <<fixed, retryCount, timeouts, network, history>>


-----------------------------------------------------------------------------
(* App.tsx: handleGenerate, startJobPolling and its poll closure *)

\* handleGenerate up to its await of the create request
handleGenerate ==
    /\ variant = "App"
    /\ mounted /\ ~isLoading
    /\ Validate(form) = {}
    /\ Len(posts) < MaxPosts
    /\ nextJob + Len(posts) <= MaxJobs
    /\ formErrors' = {}
    /\ isLoading' = TRUE
    /\ error' = Null
    /\ openAiStatus' = "Sending request to OpenAI..."
    /\ posts' = Append(posts, form)
    /\ UNCHANGED <<fixed, mounted, form, job, isGenerating,
                   browser, gets, nextJob, history>>

\* the job record handleGenerate sets when the response carries an id
App_newJob(jobId, v) ==
    [id |-> jobId, status |-> "pending", progress |-> 0, error |-> Undefined,
     openAiStatus |-> Undefined, openAiResponse |-> Undefined,
     videoUrl |-> Undefined,
     generationDetails |->
        [prompt |-> v.prompt, duration |-> v.duration, resolution |-> v.resolution]]

\* the create request answered with a job id: setJob, then startJobPolling,
\* which clears the old timer, polls once at once and starts the new timer
App_startJobPolling ==
    /\ variant = "App"
    /\ nextJob <= MaxJobs
    /\ Total(gets) < MaxInFlight
    /\ \E i \in 1..Len(posts) :
        LET jobId == nextJob
            cleared == IF pollingInterval # NoTimer
                       THEN clearInterval(intervals, pollingInterval)
                       ELSE intervals
        IN  /\ FreeTimers(cleared, NoTimer) # {}
            /\ job' = St(App_newJob(jobId, posts[i]), job)
            /\ openAiStatus' =
                 St("Request received. Processing video generation...", openAiStatus)
            /\ gets' = [gets EXCEPT ![jobId] = @ + 1]
            /\ pollingInterval' = NewTimer(cleared, NoTimer)
            /\ intervals' =
                 setInterval(cleared, NewTimer(cleared, NoTimer), jobId, POLL_PERIOD)
            /\ posts' = RemoveAt(posts, i)
            /\ nextJob' = nextJob + 1
            /\ started' = started \cup {jobId}
    /\ UNCHANGED <<fixed, mounted, form, formErrors, isLoading, isGenerating,
                   error, retryCount, timeouts, terminalSeen, lastPoll>>

\* the create request failed or carried no id: the catch block
handleGenerate_catch ==
    /\ variant = "App"
    /\ \E i \in 1..Len(posts), e \in CreateErrors :
        /\ error' = St("Error: " \o CreateErrorMsg(e), error)
        /\ isLoading' = St(FALSE, isLoading)
        /\ posts' = RemoveAt(posts, i)
        /\ nextJob' = nextJob + 1
    /\ UNCHANGED <<fixed, mounted, form, formErrors, job, isGenerating,
                   openAiStatus, browser, gets, history>>

\* videoUrl of the setJob updater of poll
App_videoUrl(res) ==
    IF res = NoResult THEN Undefined
    ELSE IF Truthy(res.video_url) THEN res.video_url
    ELSE IF Truthy(res.video_id) THEN "origin/api/v1/videos/" \o res.video_id
    ELSE Undefined

\* The setJob updater of poll (App.tsx)
App_merge(prev, r, jobId) ==
    IF prev = NoJob
    THEN [id |-> jobId, status |-> Or(r.status, "pending"),
          progress |-> IF r.progress \notin {NoProgress, 0} THEN r.progress ELSE 0,
          error |-> r.error, openAiStatus |-> r.openai_status,
          openAiResponse |-> r.openai_response, videoUrl |-> App_videoUrl(r.result),
          generationDetails |-> [prompt |-> <<>>, duration |-> 0, resolution |-> ""]]
    ELSE [prev EXCEPT
            !.status = Or(r.status, prev.status),
            !.progress = IF r.progress # NoProgress THEN r.progress ELSE prev.progress,
            !.error = Or(r.error, prev.error),
            !.openAiStatus = Or(r.openai_status, prev.openAiStatus),
            !.openAiResponse = Or(r.openai_response, prev.openAiResponse),
            !.videoUrl = Or(App_videoUrl(r.result), prev.videoUrl)]

\* the status line poll shows for a response that is not terminal
ProcessingMsg(r) ==
    Or(r.openai_status,
       "Processing" \o (IF r.progress \notin {NoProgress, 0}
                        THEN " - " \o ToString(r.progress) \o "%" ELSE "..."))

\* poll, the try block: a 2xx response with the parsable body r for job j
poll_try(j, r) ==
    /\ variant = "App"
    /\ gets[j] > 0
    /\ r.status \notin Terminal => backend = "any"
    /\ gets' = [gets EXCEPT ![j] = @ - 1]
    /\ job' = St(App_merge(job, r, j), job)
    /\ IF r.status = "completed"
       THEN /\ intervals' = IF pollingInterval # NoTimer
                            THEN clearInterval(intervals, pollingInterval)
                            ELSE intervals
            /\ pollingInterval' = NoTimer
            /\ isLoading' = St(FALSE, isLoading)
            /\ openAiStatus' = St("Video generation completed successfully!", openAiStatus)
            /\ UNCHANGED error
       ELSE IF r.status = "failed"
       THEN /\ intervals' = IF pollingInterval # NoTimer
                            THEN clearInterval(intervals, pollingInterval)
                            ELSE intervals
            /\ pollingInterval' = NoTimer
            /\ isLoading' = St(FALSE, isLoading)
            /\ error' = St(Or(r.error, "Video generation failed"), error)
            /\ openAiStatus' =
                 St("Error: " \o Or(r.error, "Video generation failed"), openAiStatus)
       ELSE /\ openAiStatus' = St(ProcessingMsg(r), openAiStatus)
            /\ UNCHANGED <<intervals, pollingInterval, isLoading, error>>
    /\ terminalSeen' = IF r.status \in Terminal THEN terminalSeen \cup {j}
                       ELSE terminalSeen
    /\ lastPoll' = "ok"
    /\ UNCHANGED <<fixed, mounted, form, formErrors, isGenerating, retryCount,
                   timeouts, posts, nextJob, started>>

\* a 2xx response whose body JSON.parse rejects
Unparsable == AxiosError(200, Undefined, "Invalid response format from server")

\* what the catch block of poll can be handed: any failure, 404 included
App_PollErrors == PollErrors \cup {NotFound, Unparsable}

\* poll, the catch block
poll_catch(j, e) ==
    /\ variant = "App"
    /\ gets[j] > 0
    /\ backend = "any"
    /\ gets' = [gets EXCEPT ![j] = @ - 1]
    /\ error' = St("Error: " \o Or(e.detail, Or(Or(e.message, "Unknown error"),
                                            "Failed to check job status")), error)
    /\ openAiStatus' = St("Failed to check job status", openAiStatus)
    /\ intervals' = IF pollingInterval # NoTimer
                    THEN clearInterval(intervals, pollingInterval)
                    ELSE intervals
    /\ pollingInterval' = NoTimer
    /\ isLoading' = St(FALSE, isLoading)
    /\ UNCHANGED <<started, terminalSeen>>
    /\ lastPoll' = IF e = NotFound THEN "404" ELSE "error"
    /\ UNCHANGED <<fixed, mounted, form, formErrors, job, isGenerating,
                   retryCount, timeouts, posts, nextJob>>

-----------------------------------------------------------------------------
(* The state machine *)

\* what the user types in the state machine
Prompts == {PromptCat}
Durations == {5}
Resolutions == {"854x480"}

Next ==
    \/ setFieldValue(Prompts, Durations, Resolutions)
    \/ onSubmitRejected
    \/ handleSubmit
    \/ startJobPolling
    \/ handleSubmit_catch
    \/ intervalTick
    \/ timeoutFire
    \/ \E j \in JobIds, r \in PollResponses : checkJobStatus_try(j, r)
    \/ \E j \in JobIds : checkJobStatus_404(j)
    \/ \E j \in JobIds, e \in PollErrors : checkJobStatus_error(j, e)
    \/ handleGenerate
    \/ App_startJobPolling
    \/ handleGenerate_catch
    \/ \E j \in JobIds, r \in PollResponses : poll_try(j, r)
    \/ \E j \in JobIds, e \in App_PollErrors : poll_catch(j, e)
    \/ unmount

Spec == Init /\ [][Next]_vars

-----------------------------------------------------------------------------
(* The form on its own: every kind of input, submissions, create responses *)

AllPrompts == {PromptEmpty, PromptBlank, <<" ", "\t">>, PromptCat, <<" ", "a", " ">>}
AllDurations == {0, 1, 5, 10, 11}
AllResolutions == {"854x480", "1080x1080", "999x999"}

InitValidate ==
    /\ variant = "part_000"
    /\ arg = NoCall
    /\ ret = NoCall
    /\ mountedState

NextValidate ==
    \/ setFieldValue(AllPrompts, AllDurations, AllResolutions)
    \/ onSubmitRejected
    \/ handleSubmit
    \/ startJobPolling
    \/ handleSubmit_catch

SpecValidate == InitValidate /\ [][NextValidate]_vars

-----------------------------------------------------------------------------
(* The setJob updater of a successful poll on its own: arg is the record it *)
(* is handed (prev) and the response body (r), ret the record it returns    *)

OldResult ==
    [video_url |-> "https://x/old.mp4", video_id |-> "vid-0", filename |-> "old.mp4"]

\* job records of part_000 in the middle of polling
MergeJobs ==
    { [initialJobWithDetails(1, FormValues(PromptCat, 5, "854x480")) EXCEPT
          !.status = "processing", !.progress = 40, !.error = er,
          !.openAiResponse = orsp, !.result = res, !.videoUrl = url]
      : er \in {Undefined, "old error"}, orsp \in {Undefined, "old response"},
        res \in {NoResult, OldResult}, url \in {Undefined, "https://x/old.mp4"} }

\* job records of App.tsx in the middle of polling
App_MergeJobs ==
    { [App_newJob(1, FormValues(PromptCat, 5, "854x480")) EXCEPT
          !.status = "processing", !.progress = 40, !.error = er,
          !.openAiStatus = os, !.openAiResponse = orsp, !.videoUrl = url]
      : er \in {Undefined, "old error"}, os \in {Undefined, "old status"},
        orsp \in {Undefined, "old response"},
        url \in {Undefined, "https://x/old.mp4"} }

\* response bodies: each field absent, present and empty (or null), or set
MergeResponses ==
    { Resp(st, pr, er, os, orsp, res) :
        st \in {Undefined, "", "completed"}, pr \in {NoProgress, 0, 55},
        er \in {Undefined, Null, "boom"}, os \in {Undefined, "", "queued"},
        orsp \in {Undefined, "raw"},
        res \in {NoResult, VideoResult,
                 [VideoResult EXCEPT !.video_url = Undefined],
                 [VideoResult EXCEPT !.video_url = Undefined,
                                     !.video_id = Undefined]} }

InitMerge ==
    /\ variant \in Variants
    /\ arg \in [prev : IF variant = "part_000" THEN MergeJobs ELSE App_MergeJobs,
                r : MergeResponses]
    /\ ret = NoCall
    /\ mountedState

checkJobStatus_merge ==
    /\ variant = "part_000"
    /\ arg # NoCall /\ ret = NoCall
    /\ ret' = merge(arg.prev, arg.r)
    /\ UNCHANGED <<variant, arg, backend, mounted, form, formErrors, job, ui, browser,
                   network, history>>

poll_merge ==
    /\ variant = "App"
    /\ arg # NoCall /\ ret = NoCall
    /\ ret' = App_merge(arg.prev, arg.r, arg.prev.id)
    /\ UNCHANGED <<variant, arg, backend, mounted, form, formErrors, job, ui, browser,
                   network, history>>

NextMerge ==
    \/ checkJobStatus_merge
    \/ poll_merge

SpecMerge == InitMerge /\ [][NextMerge]_vars


-----------------------------------------------------------------------------
(* getVideoFilename on its own: arg is the prompt, ret the file name.      *)
(* Strings are sequences of characters.                                    *)

MaxPromptLen == 3   \* length of the prompts enumerated over Alphabet

UpperChars ==
    <<"A", "B", "C", "D", "E", "F", "G", "H", "I", "J", "K", "L", "M", "N", "O",
      "P", "Q", "R", "S", "T", "U", "V", "W", "X", "Y", "Z", "É">>
LowerChars ==
    <<"a", "b", "c", "d", "e", "f", "g", "h", "i", "j", "k", "l", "m", "n", "o",
      "p", "q", "r", "s", "t", "u", "v", "w", "x", "y", "z", "é">>

\* String.prototype.toLowerCase, one character
ToLower(c) ==
    IF \E i \in 1..Len(UpperChars) : UpperChars[i] = c
    THEN LowerChars[CHOOSE i \in 1..Len(UpperChars) : UpperChars[i] = c]
    ELSE c

\* the characters the class [a-z0-9_] matches under the i flag
SafeChar(c) ==
    \/ \E i \in 1..26 : c = LowerChars[i] \/ c = UpperChars[i]
    \/ c \in {"0", "1", "2", "3", "4", "5", "6", "7", "8", "9", "_"}

\* s.trim().split(/\s+/).filter(Boolean)
RECURSIVE Words(_)
Words(s) ==
    LET t == TrimLeft(s)
    IN  IF t = <<>> THEN <<>>
        ELSE LET n == CHOOSE n \in 1..Len(t) :
                        /\ \A i \in 1..n : ~IsSpace(t[i])
                        /\ n = Len(t) \/ IsSpace(t[n + 1])
             IN  <<SubSeq(t, 1, n)>> \o Words(SubSeq(t, n + 1, Len(t)))

\* words.slice(0, n)
Slice(ws, n) == SubSeq(ws, 1, IF Len(ws) < n THEN Len(ws) ELSE n)

\* words.join(sep)
RECURSIVE Join(_, _)
Join(ws, sep) ==
    IF ws = <<>> THEN <<>>
    ELSE IF Len(ws) = 1 THEN ws[1]
    ELSE ws[1] \o sep \o Join(Tail(ws), sep)

\* s.toLowerCase()
LowerCase(s) == [i \in 1..Len(s) |-> ToLower(s[i])]

\* name.replace(/[^a-z0-9_]/gi, '_')
ReplaceUnsafe(s) == [i \in 1..Len(s) |-> IF SafeChar(s[i]) THEN s[i] ELSE "_"]

Mp4 == <<".", "m", "p", "4">>
Video == <<"v", "i", "d", "e", "o">>

\* (variation: only the first word is used)
getVideoFilename_oneWord(promptText) ==
    LET words == Words(promptText)
        name == IF Len(words) > 0
                THEN LowerCase(Join(Slice(words, 1), <<"_">>))
                ELSE Video
    IN  ReplaceUnsafe(name) \o Mp4

\* getVideoFilename (the two variants have the same body)
getVideoFilename(promptText) ==
    LET words == Words(promptText)
        name == IF Len(words) > 0
                THEN LowerCase(Join(Slice(words, 2), <<"_">>))
                ELSE Video
    IN  ReplaceUnsafe(name) \o Mp4

\* the characters prompts are enumerated over
Alphabet == {"A", "b", "1", " ", "\t", ",", "é"}

RECURSIVE SeqsUpTo(_, _)
SeqsUpTo(S, n) ==
    IF n = 0 THEN {<<>>}
    ELSE LET shorter == SeqsUpTo(S, n - 1)
         IN  shorter \cup {Append(q, c) : q \in {r \in shorter : Len(r) = n - 1},
                                          c \in S}

HelloWorld ==
    <<"H", "e", "l", "l", "o", ",", " ", "W", "o", "r", "l", "d", "!", "!">>
BeautifulSunset ==
    <<"A", " ", "b", "e", "a", "u", "t", "i", "f", "u", "l", " ",
      "s", "u", "n", "s", "e", "t">>

FilenamePrompts == SeqsUpTo(Alphabet, MaxPromptLen) \cup {HelloWorld, BeautifulSunset}

\* what the component may be doing when the file name is computed
FilenameJobs ==
    {NoJob, initialJobWithDetails(1, FormValues(PromptCat, 5, "854x480"))}

InitFilename ==
    /\ variant \in Variants
    /\ arg \in [prompt : FilenamePrompts]
    /\ ret = NoCall
    /\ mounted = TRUE
    /\ form = [initialValues EXCEPT !.prompt = arg.prompt]
    /\ formErrors = {}
    /\ job \in (IF variant = "part_000" THEN FilenameJobs ELSE {NoJob})
    /\ isLoading \in BOOLEAN
    /\ isGenerating = FALSE
    /\ error = Null
    /\ openAiStatus = ""
    /\ pollingInterval = NoTimer
    /\ retryCount = [j \in JobIds |-> 0]
    /\ intervals = {}
    /\ timeouts = [j \in JobIds |-> 0]
    /\ gets = [j \in JobIds |-> 0]
    /\ posts = <<>>
    /\ nextJob = 1
    /\ started = {}
    /\ terminalSeen = {}
    /\ lastPoll = "none"
    /\ backend = "any"

\* the markup evaluates getVideoFilename(form.values.prompt)
getVideoFilename_call ==
    /\ arg # NoCall /\ ret = NoCall
    /\ "prompt" \in DOMAIN arg
    /\ ret' = getVideoFilename(arg.prompt)
    /\ UNCHANGED <<variant, arg, backend, mounted, form, formErrors, job, ui, browser,
                   network, history>>

NextFilename == getVideoFilename_call

SpecFilename == InitFilename /\ [][NextFilename]_vars

-----------------------------------------------------------------------------
(* One scripted run of part_000: one submission, whose create request is   *)
(* answered with job id 1; the backend answers the status requests with    *)
(* 404, then {processing, 30}, then {completed, result} and nothing more.  *)
(* Timers and responses are scheduled freely.                              *)

PromptSkateboard ==
    <<"c", "a", "t", " ", "o", "n", " ", "a", " ",
      "s", "k", "a", "t", "e", "b", "o", "a", "r", "d">>

RunProcessing == Resp("processing", 30, Undefined, Undefined, Undefined, NoResult)
RunCompleted ==
    Resp("completed", NoProgress, Undefined, Undefined, Undefined, VideoResult)

\* what the user has typed when the run starts: the values of the run, and
\* the other durations and resolutions the form accepts
RunForms ==
    {FormValues(PromptSkateboard, d, r) : d \in {1, 5, 10}, r \in supportedResolutions}

InitRun ==
    /\ variant = "part_000"
    /\ arg = NoCall
    /\ ret = NoCall
    /\ mounted = TRUE
    /\ form \in RunForms
    /\ formErrors = {}
    /\ job = NoJob
    /\ isLoading = FALSE
    /\ isGenerating = FALSE
    /\ error = Null
    /\ openAiStatus = ""
    /\ pollingInterval = NoTimer
    /\ retryCount = [j \in JobIds |-> 0]
    /\ intervals = {}
    /\ timeouts = [j \in JobIds |-> 0]
    /\ gets = [j \in JobIds |-> 0]
    /\ posts = <<>>
    /\ nextJob = 1
    /\ started = {}
    /\ terminalSeen = {}
    /\ lastPoll = "none"
    /\ backend = "any"

run_submit == job = NoJob /\ handleSubmit
run_404 == lastPoll = "none" /\ checkJobStatus_404(1)
run_processing == lastPoll = "404" /\ checkJobStatus_try(1, RunProcessing)
run_completed ==
    lastPoll = "ok" /\ 1 \notin terminalSeen /\ checkJobStatus_try(1, RunCompleted)

NextRun ==
    \/ run_submit
    \/ startJobPolling
    \/ intervalTick
    \/ timeoutFire
    \/ run_404
    \/ run_processing
    \/ run_completed

SpecRun == InitRun /\ [][NextRun]_vars

-----------------------------------------------------------------------------
(* part_000 polling one job, with a backend that at some moment settles:   *)
(* from then on every status request is answered with a terminal status.   *)
(* Scheduling is fair: a timer that is set fires, and once the backend has *)
(* settled every request in flight is answered.                            *)

backendSettles ==
    /\ backend = "any"
    /\ backend' = "terminal"
    /\ UNCHANGED <<variant, arg, ret, mounted, form, formErrors, job, ui, browser,
                   network, history>>

TerminalResponses == {r \in PollResponses : r.status \in Terminal}

checkJobStatus_settled ==
    /\ backend = "terminal"
    /\ \E j \in JobIds, r \in TerminalResponses : checkJobStatus_try(j, r)

InitSettle ==
    /\ variant = "part_000"
    /\ arg = NoCall
    /\ ret = NoCall
    /\ mountedState

NextSettle ==
    \/ setFieldValue(Prompts, Durations, Resolutions)
    \/ run_submit
    \/ startJobPolling
    \/ intervalTick
    \/ timeoutFire
    \/ \E j \in JobIds, r \in PollResponses : checkJobStatus_try(j, r)
    \/ \E j \in JobIds : checkJobStatus_404(j)
    \/ \E j \in JobIds, e \in PollErrors : checkJobStatus_error(j, e)
    \/ backendSettles

SpecSettle ==
    /\ InitSettle
    /\ [][NextSettle]_vars
    /\ WF_vars(intervalTick)
    /\ WF_vars(timeoutFire)
    /\ WF_vars(checkJobStatus_settled)

-----------------------------------------------------------------------------
(* The download of a finished video.  One job is submitted and polled; the *)
(* form can be edited whenever it is enabled; the download button calls    *)
(* handleDownload(url, getVideoFilename(form.values.prompt)).  ret records *)
(* the call: the URL and file name given to the anchor, whether the        *)
(* handler threw, and whether the hint timer of App.tsx is pending.        *)

PromptDog == <<"d", "o", "g">>
DownloadPrompts == {PromptCat, PromptDog}
DownloadDurations == {5, 10}

DownloadCall(url, name, threw, hint) ==
    [videoUrl |-> url, filename |-> name, threw |-> threw, hint |-> hint]

DownloadFailed == "Failed to download video. Please try again."
DownloadHint ==
    "Download did not start automatically. Right-click the video and select \"Save video as...\""

\* (variation: a download that throws records the failure on the job)
handleDownload_markingJob ==
    /\ variant = "part_000"
    /\ mounted
    /\ job # NoJob
    /\ job.status = "completed"
    /\ job.result # NoResult
    /\ Truthy(job.result.video_url)
    /\ \E threw \in BOOLEAN :
        /\ ret' = DownloadCall(job.result.video_url,
                               getVideoFilename(form.prompt), threw, FALSE)
        /\ error' = IF threw THEN DownloadFailed ELSE error
        /\ job' = IF threw THEN [job EXCEPT !.error = DownloadFailed] ELSE job
    /\ UNCHANGED <<variant, arg, backend, mounted, form, formErrors,
                   isLoading, isGenerating, openAiStatus, browser, network,
                   history>>

\* part_000: the download button (the button of the modal makes the same call)
handleDownload ==
    /\ variant = "part_000"
    /\ mounted
    /\ job # NoJob
    /\ job.status = "completed"
    /\ job.result # NoResult
    /\ Truthy(job.result.video_url)
    /\ \E threw \in BOOLEAN :
        /\ ret' = DownloadCall(job.result.video_url,
                               getVideoFilename(form.prompt), threw, FALSE)
        /\ error' = IF threw THEN DownloadFailed ELSE error
    /\ UNCHANGED <<variant, arg, backend, mounted, form, formErrors, job,
                   isLoading, isGenerating, openAiStatus, browser, network,
                   history>>

\* new URL(videoUrl) with the query parameter t set
App_downloadUrl(url) == url \o "?t=now"

\* what the catch block of handleDownload of App.tsx shows
App_DownloadFailed ==
    "Failed to start download: Invalid URL\nYou can right-click the video and select \"Save video as...\""

\* App.tsx: the download button; a call that does not throw clears the error
\* banner and schedules the hint
App_handleDownload ==
    /\ variant = "App"
    /\ mounted
    /\ job # NoJob
    /\ job.status = "completed"
    /\ Truthy(job.videoUrl)
    /\ \E threw \in BOOLEAN :
        /\ ret' = DownloadCall(IF threw THEN job.videoUrl
                               ELSE App_downloadUrl(job.videoUrl),
                               getVideoFilename(form.prompt), threw, ~threw)
        /\ error' = IF threw THEN App_DownloadFailed ELSE Null
    /\ UNCHANGED <<variant, arg, backend, mounted, form, formErrors, job,
                   isLoading, isGenerating, openAiStatus, browser, network,
                   history>>

\* App.tsx: the timers of handleDownload fire (100 ms, then 2000 ms)
App_downloadHint ==
    /\ variant = "App"
    /\ ret # NoCall
    /\ ret.hint
    /\ ret' = [ret EXCEPT !.hint = FALSE]
    /\ error' = St(DownloadHint, error)
    /\ UNCHANGED <<variant, arg, backend, mounted, form, formErrors, job,
                   isLoading, isGenerating, openAiStatus, browser, network,
                   history>>

\* handleGenerate of the one job
download_generate == nextJob = 1 /\ handleGenerate

InitDownload ==
    /\ variant \in Variants
    /\ arg = NoCall
    /\ ret = NoCall
    /\ mountedState

NextDownload ==
    \/ setFieldValue(DownloadPrompts, DownloadDurations, Resolutions)
    \/ run_submit
    \/ startJobPolling
    \/ intervalTick
    \/ timeoutFire
    \/ \E j \in JobIds, r \in PollResponses : checkJobStatus_try(j, r)
    \/ \E j \in JobIds : checkJobStatus_404(j)
    \/ \E j \in JobIds, e \in PollErrors : checkJobStatus_error(j, e)
    \/ handleDownload
    \/ download_generate
    \/ App_startJobPolling
    \/ \E j \in JobIds, r \in PollResponses : poll_try(j, r)
    \/ \E j \in JobIds, e \in App_PollErrors : poll_catch(j, e)
    \/ App_handleDownload
    \/ App_downloadHint
    \/ unmount

SpecDownload == InitDownload /\ [][NextDownload]_vars

-----------------------------------------------------------------------------
(* The request interceptor of the API client on its own: arg is the        *)
(* request config handed to the interceptor and the reading of the clock,  *)
(* ret the config it returns.  axios has set config.method by the time the *)
(* interceptor runs.  Caller-supplied query parameters are drawn from      *)
(* names other than _t, the name the interceptor writes.                   *)

ApplicationJson == "application/json"

Methods == {"get", "GET", "post", "POST", "delete"}

\* String.prototype.toLowerCase on a method name
toLowerCase(m) ==
    CASE m = "GET" -> "get"
      [] m = "POST" -> "post"
      [] OTHER -> m

HeaderNames == {"Content-Type", "Accept", "Authorization"}
ParamNames == {"page", "limit"}
Timestamps == {1000, 2000}

\* an axios request config; hasParams is FALSE when config.params is undefined
Config(m, h, hp, ps) == [method |-> m, headers |-> h, hasParams |-> hp, params |-> ps]

CallerHeaders == UNION {[S -> {"text/plain"}] : S \in SUBSET HeaderNames}
CallerParams == UNION {[S -> {"1"}] : S \in SUBSET ParamNames}

Configs ==
    {Config(m, h, TRUE, ps) : m \in Methods, h \in CallerHeaders, ps \in CallerParams}
    \cup {Config(m, h, FALSE, <<>>) : m \in Methods, h \in CallerHeaders}

\* (variation: no cache-busting parameter is added)
interceptor_noCacheBust(config, now) ==
    [config EXCEPT
        !.headers = [k \in {"Content-Type", "Accept"} |-> ApplicationJson] @@ @]

\* the request interceptor: (config) => { ...; return config }
interceptor(config, now) ==
    LET tagged == [config EXCEPT
                     !.headers = [k \in {"Content-Type", "Accept"} |->
                                     ApplicationJson] @@ @]
    IN  IF toLowerCase(config.method) = "get"
        THEN [tagged EXCEPT
                !.hasParams = TRUE,
                !.params = ("_t" :> now) @@
                           (IF config.hasParams THEN config.params ELSE <<>>)]
        ELSE tagged

InitRequest ==
    /\ variant \in Variants
    /\ arg \in [config : Configs, now : Timestamps]
    /\ ret = NoCall
    /\ mountedState

\* apiClient sends a request: the interceptor is applied to its config
interceptor_call ==
    /\ arg # NoCall /\ ret = NoCall
    /\ "config" \in DOMAIN arg
    /\ ret' = interceptor(arg.config, arg.now)
    /\ UNCHANGED <<variant, arg, backend, mounted, form, formErrors, job, ui, browser,
                   network, history>>

NextRequest == interceptor_call

SpecRequest == InitRequest /\ [][NextRequest]_vars

-----------------------------------------------------------------------------
(* Shorthands of the properties *)

IsPart000 == variant = "part_000"

\* the recurring timers that poll job j
TimersOf(ints, j) == {t \in ints : t.jobId = j}

\* C1: in part_000 at most one recurring (setInterval) poll timer is active in
\* every reachable state.
C1_AtMostOneTimer ==
    IsPart000 => Cardinality(intervals) <= 1

\* C2: in part_000, once a response with status completed or failed has been
\* processed for a job, no further GET /api/job/{id} is issued for that job.
C2_NoPollAfterTerminal ==
    [][\A j \in JobIds :
          (IsPart000 /\ j \in terminalSeen) => gets'[j] <= gets[j]]_vars


\* a step that processes a 404 for job j (only that step increments the counter)
NotFoundStep(j) == retryCount'[j] = retryCount[j] + 1

\* a step that processes some outcome of a status request of job j
OutcomeStep(j) == gets'[j] < gets[j]

\* C3: in part_000, for a job that has not reached a terminal status, a 404
\* that brings the consecutive counter to 1..4 leaves
\* the job's status and error field and the error banner as they were; the one
\* that brings it to 5 sets the status to processing and the diagnostic message
\* to the finalizing message and replaces the recurring timer by one with a
\* 5000 ms period.
C3_NotFoundBackoff ==
    [][\A j \in JobIds :
          (IsPart000 /\ mounted /\ job # NoJob /\ j \notin terminalSeen
              /\ NotFoundStep(j)) =>
             IF retryCount'[j] < MAX_RETRIES
             THEN /\ job'.status = job.status
                  /\ job'.error = job.error
                  /\ error' = error
             ELSE retryCount'[j] = MAX_RETRIES =>
                  /\ job'.status = "processing"
                  /\ job'.openAiStatus = Finalizing
                  /\ pollingInterval' # NoTimer
                  /\ Timer(pollingInterval', j, SLOW_POLL_PERIOD) \in intervals'
                  /\ \A t \in TimersOf(intervals', j) : t.period = SLOW_POLL_PERIOD]_vars

\* C4: in part_000, no 404 sets the job's status to failed, records an error on
\* the job or on the banner, or leaves a job that was being polled by a
\* recurring timer without one: polling goes on.
C4_NotFoundNeverFails ==
    [][\A j \in JobIds :
          (IsPart000 /\ NotFoundStep(j)) =>
             /\ error' = error
             /\ (job = NoJob) = (job' = NoJob)
             /\ job # NoJob =>
                  /\ job'.error = job.error
                  /\ job'.status = "failed" => job.status = "failed"
             /\ \A k \in JobIds :
                  TimersOf(intervals, k) # {} => TimersOf(intervals', k) # {}]_vars

\* C5: in part_000, the step that processes a poll failure other than 404 for a
\* job stops its poll loop: no recurring timer of the job stays active and no
\* one-off re-check of it stays pending, so that no further status request can
\* be issued.
C5_PollErrorStopsPolling ==
    [][\A j \in JobIds :
          (IsPart000 /\ OutcomeStep(j) /\ lastPoll' = "error") =>
             /\ TimersOf(intervals', j) = {}
             /\ timeouts'[j] = 0]_vars

\* the poll loop of job j has been cancelled: a terminal status was processed,
\* the view was torn down, or the poll loop of a newer submission has started
Cancelled(j) ==
    \/ j \in terminalSeen
    \/ ~mounted
    \/ \E k \in started : k > j

\* C6: in both variants, a poll outcome processed after the job's poll loop was
\* cancelled is discarded: it changes neither the job record nor the flags, the
\* error banner or the status line.
C6_StaleResponseDiscarded ==
    [][\A j \in JobIds :
          (OutcomeStep(j) /\ Cancelled(j)) => UNCHANGED <<job, ui>>]_vars

\* C7: in both variants, once the job's status is completed or failed, the job
\* record changes only by a step of a submission (a create request is sent or
\* answered).
C7_TerminalJobFrozen ==
    [][(mounted' /\ job # NoJob /\ job.status \in Terminal /\ posts' = posts) =>
          job' = job]_vars

\* what C8 calls present: the response carries the field
C8_Present(v) == v # Undefined

\* the fields of the job record the merge may write
C8_Merged ==
    {"status", "progress", "error", "openAiStatus", "openAiResponse", "result",
     "videoUrl"}

\* C8 as stated: for status, progress, error, provider status and provider
\* response, a field absent from the response keeps the job's previous value
\* and a field present in it gives the job the response's value; every other
\* field of the job is unchanged.
C8_PresentFieldWins ==
    ret # NoCall =>
       /\ ret.status = IF C8_Present(arg.r.status)
                       THEN arg.r.status ELSE arg.prev.status
       /\ ret.progress = IF arg.r.progress # NoProgress
                         THEN arg.r.progress ELSE arg.prev.progress
       /\ ret.error = IF C8_Present(arg.r.error)
                      THEN arg.r.error ELSE arg.prev.error
       /\ ret.openAiStatus = IF C8_Present(arg.r.openai_status)
                             THEN arg.r.openai_status ELSE arg.prev.openAiStatus
       /\ ret.openAiResponse = IF C8_Present(arg.r.openai_response)
                               THEN arg.r.openai_response
                               ELSE arg.prev.openAiResponse
       /\ \A f \in DOMAIN arg.prev \ C8_Merged : ret[f] = arg.prev[f]

\* a field the merge takes from the response: present and neither null nor empty
C8_Carries(v) == v # Undefined /\ v # Null /\ v # ""

\* the video URL a response supplies, if any
C8_Url(res) ==
    IF res = NoResult THEN Undefined
    ELSE IF C8_Carries(res.video_url) THEN res.video_url
    ELSE IF variant = "App" /\ C8_Carries(res.video_id)
         THEN "origin/api/v1/videos/" \o res.video_id
    ELSE Undefined

\* C8 amended: in both variants the merge is field-wise and additive.  status,
\* error, provider status and provider response take the response's value when
\* the response carries one that is neither null nor empty and keep the
\* previous value otherwise; progress takes the response's value whenever it is
\* present (0 included); the video URL is the result's video_url (in App.tsx,
\* failing that, the URL built from the result's video_id) and is kept when the
\* response supplies none; part_000 keeps the previous result when the response
\* has none; every other field of the job is unchanged.
C8_MergeAdditive ==
    ret # NoCall =>
       /\ ret.status = IF C8_Carries(arg.r.status)
                       THEN arg.r.status ELSE arg.prev.status
       /\ ret.progress = IF arg.r.progress # NoProgress
                         THEN arg.r.progress ELSE arg.prev.progress
       /\ ret.error = IF C8_Carries(arg.r.error)
                      THEN arg.r.error ELSE arg.prev.error
       /\ ret.openAiStatus = IF C8_Carries(arg.r.openai_status)
                             THEN arg.r.openai_status ELSE arg.prev.openAiStatus
       /\ ret.openAiResponse = IF C8_Carries(arg.r.openai_response)
                               THEN arg.r.openai_response
                               ELSE arg.prev.openAiResponse
       /\ ret.videoUrl = IF C8_Url(arg.r.result) # Undefined
                         THEN C8_Url(arg.r.result) ELSE arg.prev.videoUrl
       /\ IsPart000 =>
             ret.result = IF arg.r.result # NoResult
                          THEN arg.r.result ELSE arg.prev.result
       /\ DOMAIN ret = DOMAIN arg.prev
       /\ \A f \in DOMAIN arg.prev \ C8_Merged : ret[f] = arg.prev[f]

\* C8 witness: {status processing, progress 40, an earlier error} merged with
\* {progress 55, error null, no status} gave status processing, progress 55
\* and the earlier error
C8_Witness ==
    /\ ret # NoCall
    /\ arg.prev.status = "processing" /\ arg.prev.progress = 40
    /\ arg.prev.error = "old error"
    /\ arg.r.status = Undefined /\ arg.r.progress = 55 /\ arg.r.error = Null
    /\ ret.status = "processing" /\ ret.progress = 55
    /\ ret.error = "old error"

\* form values C9 calls acceptable: a prompt with a character that is not white
\* space, a duration of 1..10, an allow-listed resolution
C9_Acceptable(v) ==
    /\ \E i \in 1..Len(v.prompt) : v.prompt[i] \notin {" ", "\t", "\n"}
    /\ v.duration \in 1..10
    /\ v.resolution \in supportedResolutions

\* C9: in part_000 a create request is sent only for acceptable form values,
\* one request per submit, carrying those values; a submit attempt is rejected
\* only for values that are not acceptable, and the rejection sends nothing and
\* leaves the job record, the flags, the banner and the timers as they were;
\* while the form holds values that are not acceptable no step creates or
\* changes a job record or a request.
C9_ValidationFailsClosed ==
    [][/\ Len(posts') > Len(posts) =>
             /\ C9_Acceptable(form)
             /\ posts' = Append(posts, form)
       /\ (formErrors' # formErrors /\ formErrors' # {}) =>
             /\ ~C9_Acceptable(form)
             /\ UNCHANGED <<job, ui, browser, network>>
       /\ (~C9_Acceptable(form) /\ form' = form) =>
             UNCHANGED <<job, network>>]_vars

\* C9 witness: a submit with duration 10 was accepted and its create request
\* answered; then a submit of a blank prompt, duration 11 and resolution
\* 999x999 was rejected on all three fields with nothing sent
C9_Witness ==
    /\ IsPart000
    /\ job # NoJob /\ job.duration = MAX_VIDEO_DURATION
    /\ form = FormValues(PromptBlank, 11, "999x999")
    /\ formErrors = {"prompt", "duration", "resolution"}
    /\ posts = <<>>
    /\ nextJob = 2

\* C10: in both variants the step that answers a create request with job id j
\* sets the job record's id to j and starts a recurring poll timer for j; the
\* step that answers it without an id (or with a failure) surfaces an error and
\* starts no timer and sends no status request; and a status request is only
\* ever sent for a job id whose poll loop was started.
C10_PollLoopIffJobId ==
    [][/\ \A j \in JobIds :
             j \in started' \ started =>
                /\ Len(posts') < Len(posts)
                /\ mounted => (job' # NoJob /\ job'.id = j)
                /\ pollingInterval' # NoTimer
                /\ Timer(pollingInterval', j, POLL_PERIOD) \in intervals'
       /\ (Len(posts') < Len(posts) /\ started' = started) =>
             /\ mounted => error' # Null
             /\ mounted => (job' = NoJob \/ job'.id = job.id)
             /\ UNCHANGED <<gets, intervals, timeouts, pollingInterval>>
       /\ \A j \in JobIds : gets'[j] > gets[j] => j \in started']_vars

\* C10 witness: the first create request failed, the second was answered with
\* job id 2, whose record and recurring timer exist, and a status request for
\* it is in flight; none was ever sent for the first
C10_Witness ==
    /\ mounted
    /\ started = {2}
    /\ job # NoJob /\ job.id = 2
    /\ Timer(pollingInterval, 2, POLL_PERIOD) \in intervals
    /\ gets[2] > 0 /\ gets[1] = 0

\* the step that answers a create request without a job id or with a failure
CreateFailedStep == Len(posts') < Len(posts) /\ started' = started

\* C11: in part_000 the step that answers a create request with a failure or
\* without a job id marks the job failed, surfaces an error, starts no poll
\* timer and keeps the provisional record with the submitted prompt, duration
\* and resolution.
C11_CreateFailureMarksFailed ==
    [][(IsPart000 /\ mounted /\ CreateFailedStep) =>
          /\ job' # NoJob
          /\ job'.status = "failed"
          /\ error' # Null
          /\ intervals' = intervals
          /\ job'.prompt = job.prompt
          /\ job'.duration = job.duration
          /\ job'.resolution = job.resolution]_vars

\* white space, as the file-name claims use the word
C12_Space(c) == c \in {" ", "\t", "\n"}

\* the positions at which a whitespace-separated token of s starts
C12_Starts(s) ==
    {i \in 1..Len(s) : ~C12_Space(s[i]) /\ (i = 1 \/ C12_Space(s[i - 1]))}

\* the token of s that starts at position i
C12_Token(s, i) ==
    SubSeq(s, i, CHOOSE k \in i..Len(s) :
                    /\ \A m \in i..k : ~C12_Space(s[m])
                    /\ k = Len(s) \/ C12_Space(s[k + 1]))

\* the first two tokens of s (fewer if s has fewer), lowercased and joined by _
C12_Stem(s) ==
    LET first == CHOOSE i \in C12_Starts(s) : \A k \in C12_Starts(s) : i <= k
        rest == C12_Starts(s) \ {first}
        second == CHOOSE i \in rest : \A k \in rest : i <= k
        joined == IF rest = {} THEN C12_Token(s, first)
                  ELSE C12_Token(s, first) \o <<"_">> \o C12_Token(s, second)
    IN  [i \in 1..Len(joined) |-> ToLower(joined[i])]

\* a character of [a-z0-9_]
C12_Allowed(c) ==
    c \in {"a", "b", "c", "d", "e", "f", "g", "h", "i", "j", "k", "l", "m", "n",
           "o", "p", "q", "r", "s", "t", "u", "v", "w", "x", "y", "z", "0", "1",
           "2", "3", "4", "5", "6", "7", "8", "9", "_"}

\* C12: for every prompt with a token, getVideoFilename returns the first two
\* tokens lowercased and joined by one underscore, with every character outside
\* [a-z0-9_] deleted, followed by .mp4; the stem has only characters of
\* [a-z0-9_].
C12_FilenameStripped ==
    (ret # NoCall /\ "prompt" \in DOMAIN arg /\ C12_Starts(arg.prompt) # {}) =>
       /\ \A i \in 1..(Len(ret) - 4) : C12_Allowed(ret[i])
       /\ ret = SelectSeq(C12_Stem(arg.prompt), C12_Allowed) \o <<".", "m", "p", "4">>

\* an ASCII letter or digit
C13_Alnum(c) ==
    \/ C12_Allowed(c) /\ c # "_"
    \/ c \in {"A", "B", "C", "D", "E", "F", "G", "H", "I", "J", "K", "L", "M", "N",
              "O", "P", "Q", "R", "S", "T", "U", "V", "W", "X", "Y", "Z"}

\* C13: for every prompt made only of (ASCII) letters, digits and white space,
\* in every state of the component, getVideoFilename returns the first two
\* tokens lowercased and joined by _ (one token: that token alone) followed by
\* .mp4, and video.mp4 when the prompt has no token: the result is determined
\* by the prompt alone.
C13_FilenameOfPlainPrompt ==
    (ret # NoCall /\ "prompt" \in DOMAIN arg
        /\ \A i \in 1..Len(arg.prompt) :
              C13_Alnum(arg.prompt[i]) \/ C12_Space(arg.prompt[i])) =>
       ret = IF C12_Starts(arg.prompt) = {}
             THEN <<"v", "i", "d", "e", "o", ".", "m", "p", "4">>
             ELSE C12_Stem(arg.prompt) \o <<".", "m", "p", "4">>

\* C13 witness: while a job is polled and the form is busy, the prompt
\* 'A beautiful sunset' has given a_beautiful.mp4
C13_Witness ==
    /\ ret # NoCall /\ "prompt" \in DOMAIN arg
    /\ arg.prompt = BeautifulSunset
    /\ job # NoJob /\ isLoading
    /\ ret = <<"a", "_", "b", "e", "a", "u", "t", "i", "f", "u", "l",
               ".", "m", "p", "4">>

\* C14: in part_000, the teardown of the view leaves no recurring timer active
\* and no one-off re-check pending, whatever the poll loop was doing.
C14_NoPollingAfterTeardown ==
    [][(IsPart000 /\ mounted /\ ~mounted') =>
          /\ intervals' = {}
          /\ \A j \in JobIds : timeouts'[j] = 0]_vars

\* C15: in part_000, the step that starts the poll loop of a new submission
\* leaves exactly one recurring timer active, the one polling the new job id,
\* and from then on no status request is sent for an earlier job id.
C15_NewPollLoopEndsPrevious ==
    [][/\ \A j \in JobIds :
             (IsPart000 /\ j \in started' \ started) =>
                intervals' = {Timer(pollingInterval', j, POLL_PERIOD)}
       /\ \A j \in JobIds :
             (IsPart000 /\ \E k \in started : k > j) => gets'[j] <= gets[j]]_vars

\* C19: in part_000, the step that processes an outcome (response, 404 or
\* error) of a status request of job j leaves the job record as it is unless
\* the record's id is j.
C19_OutcomeTouchesOwnRecordOnly ==
    [][\A j \in JobIds :
          (IsPart000 /\ OutcomeStep(j) /\ job # NoJob /\ job.id # j) =>
             job' = job]_vars

\* C20: in part_000, every active recurring timer polls the id of the current
\* job record, and the step that processes an outcome of a status request of
\* an earlier job leaves the recurring timer of the current job in place.
C20_TimerPollsCurrentJob ==
    [][/\ (IsPart000 /\ mounted' /\ intervals' # {}) =>
             /\ job' # NoJob
             /\ \A t \in intervals' : t.jobId = job'.id
       /\ \A j \in JobIds :
             (IsPart000 /\ mounted /\ job # NoJob /\ OutcomeStep(j) /\ job.id > j) =>
                TimersOf(intervals', job.id) = TimersOf(intervals, job.id)]_vars

\* C16: in the scripted run, once the completed response has been processed
\* the job has status completed, progress 30 and the result's video URL, and
\* no recurring timer is active and no one-off re-check is pending.
C16_RunEndsCompleted ==
    (IsPart000 /\ 1 \in terminalSeen) =>
       /\ job # NoJob
       /\ job.status = "completed"
       /\ job.progress = 30
       /\ job.result # NoResult
       /\ job.result.video_url = "https://x/y.mp4"
       /\ job.generationDetails.prompt = form.prompt
       /\ intervals = {}
       /\ \A j \in JobIds : timeouts[j] = 0

\* a step that changes the status of the job record without replacing the
\* record by that of a submission
StatusChangeStep ==
    /\ job # NoJob /\ job' # NoJob
    /\ posts' = posts
    /\ job'.status # job.status

PollingStopped ==
    /\ intervals = {}
    /\ \A j \in JobIds : timeouts[j] = 0 /\ gets[j] = 0

\* C17: in part_000 under fair scheduling, from every state in which polling
\* is going on (a timer is set or a status request is in flight) and the
\* backend answers every status request with a terminal status from then on,
\* eventually the job's status is terminal and polling has stopped for good.
C17_TerminalStopsPolling ==
    (IsPart000 /\ backend = "terminal" /\ ~PollingStopped) ~>
        [](job # NoJob /\ job.status \in Terminal /\ PollingStopped)

\* C21: in part_000 the handle pollingInterval.current holds every recurring
\* timer that is active: whenever a recurring timer runs, the handle is not
\* null and is that timer's handle, so the timer can still be cancelled.
C21_HandleHoldsActiveTimer ==
    IsPart000 => \A t \in intervals : pollingInterval = t.h

\* the step processes a successful poll response for job j
SuccessStep(j) == OutcomeStep(j) /\ lastPoll' = "ok"

\* C22: in part_000, processing a successful poll response for a job sets that
\* job's not-found counter to 0, whatever the response says; the counter of a
\* job changes in no other way than by that reset or by a 404 outcome for the
\* job, which adds one: so the counter is the number of 404 outcomes since the
\* last successful response, and 5 is reached only by five of them in a row.
C22_SuccessResetsCounter ==
    [][IsPart000 =>
        \A j \in JobIds :
            /\ SuccessStep(j) => retryCount'[j] = 0
            /\ retryCount'[j] # retryCount[j] =>
                 \/ SuccessStep(j)
                 \/ /\ OutcomeStep(j) /\ lastPoll' = "404"
                    /\ retryCount'[j] = retryCount[j] + 1]_vars

\* a successful response has been processed after a 404 of the same job (the
\* re-check that 404 scheduled is still pending) and the counter is 0
C22_Witness ==
    /\ IsPart000
    /\ lastPoll = "ok"
    /\ \E j \in JobIds : timeouts[j] > 0 /\ retryCount[j] = 0

\* the step processes a poll failure other than a 404
PollErrorStep == (\E j \in JobIds : OutcomeStep(j)) /\ lastPoll' = "error"

\* C23: in part_000, processing a non-404 poll error leaves the status,
\* progress, result and request parameters of the job record as they were (so
\* the status is not set to 'failed') and sets the record's error field to the
\* error's message.
C23_PollErrorKeepsStatus ==
    [][(IsPart000 /\ PollErrorStep /\ mounted /\ job # NoJob) =>
        /\ job' # NoJob
        /\ job'.status = job.status
        /\ job'.progress = job.progress
        /\ job'.result = job.result
        /\ job'.prompt = job.prompt
        /\ job'.duration = job.duration
        /\ job'.resolution = job.resolution
        /\ job'.generationDetails = job.generationDetails
        /\ job'.error \in {e.message : e \in PollErrors}]_vars

\* a non-404 poll error has been processed: its message is on a record whose
\* status is not 'failed'
C23_Witness ==
    /\ IsPart000
    /\ lastPoll = "error"
    /\ job # NoJob
    /\ job.error \in {e.message : e \in PollErrors}
    /\ job.status \in {"pending", "processing"}

\* the step processes a 404 answer to a status request for job j
NotFoundOutcome(j) == OutcomeStep(j) /\ lastPoll' = "404" /\ NotFoundStep(j)

\* C24: in part_000, a 404 that brings the job's consecutive counter to 1, 2, 3
\* or 4 schedules exactly one one-off re-check of that job (after RETRY_DELAY =
\* 2000 ms), leaves every recurring timer as it is and leaves the job record,
\* its status included, unchanged; a 404 that brings the counter to 5 or more
\* schedules no one-off re-check.
C24_NotFoundSchedulesOneRecheck ==
    [][IsPart000 =>
        \A j \in JobIds : NotFoundOutcome(j) =>
            IF retryCount'[j] < MAX_RETRIES
            THEN /\ timeouts' = [timeouts EXCEPT ![j] = @ + 1]
                 /\ intervals' = intervals
                 /\ pollingInterval' = pollingInterval
                 /\ job' = job
            ELSE timeouts' = timeouts]_vars

\* a 404 below the threshold has been processed: its re-check is pending and
\* the 2000 ms timer of the job still runs
C24_Witness ==
    /\ IsPart000
    /\ lastPoll = "404"
    /\ RETRY_DELAY = 2000
    /\ \E j \in JobIds :
        /\ retryCount[j] \in 1..(MAX_RETRIES - 1)
        /\ timeouts[j] = 1
        /\ \E t \in intervals : t.jobId = j /\ t.period = POLL_PERIOD

\* a recurring timer with period p polls job j
HasTimer(ints, j, p) == \E t \in ints : t.jobId = j /\ t.period = p

\* C25: in part_000, a recurring timer with the 2000 ms period is created for
\* a job only when its poll loop is started, so a job whose timer has been
\* downgraded to 5000 ms never gets a 2000 ms timer again; and no poll outcome
\* leaves a job that had a recurring timer without one, except a successful
\* response for that job that reports a terminal status.
C25_DowngradeIsPermanent ==
    [][IsPart000 =>
        \A j \in JobIds :
            /\ (HasTimer(intervals', j, POLL_PERIOD)
                /\ ~HasTimer(intervals, j, POLL_PERIOD)) => j \notin started
            /\ (TimersOf(intervals, j) # {} /\ TimersOf(intervals', j) = {}
                /\ \E k \in JobIds : OutcomeStep(k))
                   => SuccessStep(j) /\ j \in terminalSeen']_vars

\* the step processes a successful poll response that reports a terminal status
TerminalStep ==
    /\ \E j \in JobIds : SuccessStep(j)
    /\ job' # NoJob
    /\ job'.status \in Terminal

\* C26: in part_000, after every step that ends a generation attempt (a
\* terminal status is processed, the create request fails, or a status poll
\* fails with a non-404 error) both busy flags isLoading and isGenerating are
\* false.
C26_AttemptEndClearsBusyFlags ==
    [][(IsPart000 /\ (TerminalStep \/ CreateFailedStep \/ PollErrorStep)) =>
        ~isLoading' /\ ~isGenerating']_vars

\* C27: in part_000, isLoading is true in every state in which the component
\* is mounted and a poll loop runs for the current job while its status is not
\* terminal (a recurring timer of the job is active or a one-off re-check of
\* the job is pending).
C27_LoadingWhilePolling ==
    (/\ IsPart000 /\ mounted /\ job # NoJob
     /\ job.id \in JobIds
     /\ job.status \notin Terminal
     /\ TimersOf(intervals, job.id) # {} \/ timeouts[job.id] > 0)
        => isLoading

\* the step processes a successful poll response for job j that reports 'failed'
FailedStep(j) ==
    /\ SuccessStep(j)
    /\ mounted
    /\ job' # NoJob
    /\ job'.status = "failed"

\* C28: in both variants, when a poll response with status 'failed' is
\* processed, the error shown to the user is the error field of the merged job
\* record (the response's error if it has one, otherwise the error recorded on
\* the job before), the generic 'Video generation failed' only if the merged
\* record has no error; and after the step no recurring timer polls the job.
C28_FailedSurfacesMergedError ==
    [][\A j \in JobIds : FailedStep(j) =>
        /\ error' = Or(job'.error, "Video generation failed")
        /\ TimersOf(intervals', j) = {}]_vars

\* C29: in App.tsx, processing a 404 answer to a status poll stops no recurring
\* timer, keeps the timer handle and does not change the error shown to the
\* user, so polling goes on.
C29_AppNotFoundIsTransient ==
    [][(variant = "App" /\ mounted /\ lastPoll' = "404"
        /\ \E j \in JobIds : OutcomeStep(j)) =>
            /\ intervals' = intervals
            /\ pollingInterval' = pollingInterval
            /\ error' = error]_vars

\* C30: in App.tsx, after a status poll of job j has failed with an error
\* other than 404, no recurring timer polls j and the handle is null, and, the
\* component being mounted, an error message is shown, isLoading is false and
\* the job record is as it was; a status request for j is issued only by a
\* recurring timer of j or by the initial poll of startJobPolling, and a timer
\* for j is created only by startJobPolling, so no further request follows.
C30_AppPollErrorStopsPolling ==
    [][variant = "App" =>
        \A j \in JobIds :
            /\ (OutcomeStep(j) /\ lastPoll' = "error") =>
                  /\ TimersOf(intervals', j) = {}
                  /\ pollingInterval' = NoTimer
                  /\ mounted => /\ error' # Null
                                /\ ~isLoading'
                                /\ job' = job
            /\ gets'[j] > gets[j] => TimersOf(intervals, j) # {} \/ j \notin started
            /\ ~(TimersOf(intervals', j) \subseteq TimersOf(intervals, j))
                  => j \notin started]_vars

\* a status poll of App.tsx has failed with a non-404 error while the job was
\* not finished: the message is shown, nothing polls any more
C30_Witness ==
    /\ variant = "App"
    /\ mounted
    /\ lastPoll = "error"
    /\ job # NoJob /\ job.status \notin Terminal
    /\ error # Null
    /\ ~isLoading
    /\ intervals = {}
    /\ pollingInterval = NoTimer

\* the prompt captured in the request parameters of the job record
CapturedPrompt == job.generationDetails.prompt

\* C31: in both variants, the file name handed to a download is derived from
\* the prompt captured in the job's request parameters at submission; editing
\* the form's prompt after the submission does not change it.
C31_FilenameFromCapturedPrompt ==
    [][(ret' # ret /\ ret' # NoCall /\ job # NoJob) =>
        ret'.filename = getVideoFilename(CapturedPrompt)]_vars

\* the request parameters stored in a job record of part_000
RequestParameters(jb) ==
    <<jb.prompt, jb.duration, jb.resolution, jb.generationDetails>>

\* the request parameters that submitting the form values v stores
SubmittedParameters(v) ==
    <<v.prompt, v.duration, v.resolution,
      [prompt |-> v.prompt, duration |-> v.duration, resolution |-> v.resolution]>>

\* the step is a submission: a create request is sent
SubmitStep == Len(posts') > Len(posts)

\* C32: in part_000, a submission stores the submitted prompt, duration and
\* resolution in the job record, and no later step (the create response with
\* startJobPolling, a successful poll merge, the 404 handling, a poll error, a
\* download, an edit of the form) changes them while the record exists.
C32_RequestParametersImmutable ==
    [][IsPart000 =>
        /\ SubmitStep =>
              job' # NoJob /\ RequestParameters(job') = SubmittedParameters(form)
        /\ (~SubmitStep /\ job # NoJob /\ job' # NoJob) =>
              RequestParameters(job') = RequestParameters(job)]_vars

\* job 1 has been polled and the form has been edited since its submission:
\* the record still holds other values than the form
C32_Witness ==
    /\ IsPart000
    /\ job # NoJob
    /\ job.id = 1
    /\ lastPoll = "ok"
    /\ job.status = "processing"
    /\ form.prompt # job.prompt
    /\ form.duration # job.duration

\* the step is a call of handleDownload that throws
DownloadThrows == ret' # ret /\ ret' # NoCall /\ ret'.threw

\* C33: in both variants, a call of handleDownload, whether it throws or not,
\* leaves the job record, the not-found counters, the timer handle, the
\* recurring timers and the pending re-checks unchanged, as do the timers the
\* call schedules in App.tsx; a call that throws changes nothing but the error
\* message shown to the user, which it sets.
C33_DownloadLeavesJobAlone ==
    [][ret' # ret =>
        /\ job' = job
        /\ UNCHANGED <<retryCount, pollingInterval, intervals, timeouts>>
        /\ DownloadThrows =>
              /\ error' \in {DownloadFailed, App_DownloadFailed}
              /\ UNCHANGED <<form, formErrors, isLoading, isGenerating,
                             openAiStatus, network, history, mounted>>]_vars

\* a download of a completed job has thrown: the message is shown, the record
\* is still the completed one
C33_Witness ==
    /\ ret # NoCall
    /\ ret.threw
    /\ error \in {DownloadFailed, App_DownloadFailed}
    /\ job # NoJob
    /\ job.status = "completed"

\* the request is a GET
C34_IsGet(m) == m \in {"get", "GET"}

\* C34: the config the interceptor returns carries the headers Content-Type
\* and Accept with the value 'application/json'; for a GET request it carries
\* the query parameter _t with the reading of the clock and every
\* caller-supplied query parameter with its value; for any other request its
\* query parameters are the caller's, with no _t.
C34_RequestsTaggedAndCacheBusted ==
    (ret # NoCall /\ "config" \in DOMAIN arg) =>
        /\ ret.headers["Content-Type"] = ApplicationJson
        /\ ret.headers["Accept"] = ApplicationJson
        /\ ret.method = arg.config.method
        /\ IF C34_IsGet(arg.config.method)
           THEN /\ ret.hasParams
                /\ "_t" \in DOMAIN ret.params
                /\ ret.params["_t"] = arg.now
                /\ \A k \in DOMAIN arg.config.params :
                      k \in DOMAIN ret.params /\ ret.params[k] = arg.config.params[k]
           ELSE /\ ret.hasParams = arg.config.hasParams
                /\ ret.params = arg.config.params
                /\ "_t" \notin DOMAIN ret.params

\* a GET with a caller-supplied parameter and caller-supplied headers has gone
\* through the interceptor
C34_Witness ==
    /\ ret # NoCall
    /\ "config" \in DOMAIN arg
    /\ arg.config.method = "GET"
    /\ "page" \in DOMAIN arg.config.params
    /\ "Accept" \in DOMAIN arg.config.headers
    /\ DOMAIN ret.params = {"page", "_t"}

====
